---- MODULE Spec2Model ----
(***************************************************************************)
(* Coffee roulette: the history extractor (get_past_pairings), the greedy  *)
(* group partitioner (create_groups_intelligently), the round labelling    *)
(* (get_next_group_column_name) and the "Generate Coffee Groups" pipeline  *)
(* of the Streamlit script and of the Dash application.                    *)
(*                                                                         *)
(* A Python str is a sequence of one-character strings.  The token "sup2"  *)
(* stands for the single character U+00B2 (superscript two): str.isdigit   *)
(* accepts it, int() does not.  A DataFrame is a record with the ordered   *)
(* list of its column names and, per column, the list of its cells.        *)
(***************************************************************************)
EXTENDS Integers, Sequences, FiniteSets, TLC

VARIABLES
    impl,                   \* "streamlit" (cr_streamlit.py) or "dash" (dash_app.py)
    df,                     \* the uploaded roster table
    grouped_df,             \* the stored table with the new round column
    pc,                     \* position of the running operation
    raised,                 \* "none", or the exception that ended the operation
    past_pairings,          \* dict: name -> set of names
    group_size,
    participants_df,        \* participants_df['Name'], the roster given to the partitioner
    available_participants,
    groups,
    next_group_col,
    rounds,                 \* completed pipeline invocations
    file_name               \* file name of the last download, <<>> before it

vars == <<impl, df, grouped_df, pc, raised, past_pairings, group_size,
          participants_df, available_participants, groups, next_group_col, rounds, file_name>>

----------------------------------------------------------------------------
(* Bounds of the model.                                                    *)

MaxExtraCols == 3       \* columns next to Name and Branch (round labelling)
MaxRows == 3            \* rows of the tables given to get_past_pairings
MaxNames == 3           \* roster size given to the partitioner, any group size
MaxGroupSize == 4       \* largest group_size given to the partitioner
MaxPairs == 2           \* recorded ordered pairs of an arbitrary avoidance mapping
MaxRoster == 7          \* roster size given to the partitioner with GROUP_SIZE
MaxTableRows == 5       \* rows of the tables given to one pipeline invocation
MaxChainRows == 3       \* rows of the tables given to chained pipeline invocations
MaxRounds == 2          \* re-uploads of the grouped table
MaxPool == 6            \* roster size of the loop iterations with GROUP_SIZE

GROUP_SIZE == 3

----------------------------------------------------------------------------
(* Sequences and Python lists.                                             *)

Range(s) == {s[i] : i \in DOMAIN s}

Max(S) == CHOOSE m \in S : \A x \in S : x <= m

Min2(a, b) == IF a <= b THEN a ELSE b

\* faulty variant of Pop0: the head is read but not removed
Pop0Keep(s) == s

\* list.pop(0) on a nonempty list: the list that is left
Pop0(s) == Tail(s)

\* list.remove(x): drops the first occurrence of x; ValueError when x is absent
RemoveFirst(s, x) ==
    IF \E k \in DOMAIN s : s[k] = x
    THEN LET i == CHOOSE k \in DOMAIN s : s[k] = x /\ \A j \in 1..(k - 1) : s[j] # x
         IN  [exc |-> "none", val |-> SubSeq(s, 1, i - 1) \o SubSeq(s, i + 1, Len(s))]
    ELSE [exc |-> "ValueError", val |-> s]

\* random.shuffle(s): every rearrangement of the list
Shuffles(s) == {[i \in 1..Len(s) |-> s[f[i]]] : f \in Permutations(1..Len(s))}

----------------------------------------------------------------------------
(* Python strings.                                                         *)

AsciiDigits == <<"0", "1", "2", "3", "4", "5", "6", "7", "8", "9">>

\* characters of category No that str.isdigit accepts and int() rejects
SuperscriptDigits == {"sup2"}

\* str.isdigit(): nonempty and every character is a digit
IsDigit(s) == Len(s) > 0 /\ \A i \in DOMAIN s : s[i] \in Range(AsciiDigits) \cup SuperscriptDigits

\* str.startswith(prefix)
StartsWith(s, prefix) == Len(s) >= Len(prefix) /\ SubSeq(s, 1, Len(prefix)) = prefix

\* s[k:] with k counted from 0
SliceFrom(s, k) == SubSeq(s, k + 1, Len(s))

\* str.split(sep): the pieces between the occurrences of the character sep
RECURSIVE SplitFrom(_, _, _, _)
SplitFrom(s, sep, i, piece) ==
    IF i > Len(s) THEN <<piece>>
    ELSE IF s[i] = sep THEN <<piece>> \o SplitFrom(s, sep, i + 1, <<>>)
    ELSE SplitFrom(s, sep, i + 1, Append(piece, s[i]))

Split(s, sep) == SplitFrom(s, sep, 1, <<>>)

DigitValue(c) == (CHOOSE i \in DOMAIN AsciiDigits : AsciiDigits[i] = c) - 1

\* int(s) for a string of decimal digits; ValueError otherwise
RECURSIVE DecimalValue(_)
DecimalValue(s) ==
    IF s = <<>> THEN 0
    ELSE 10 * DecimalValue(SubSeq(s, 1, Len(s) - 1)) + DigitValue(s[Len(s)])

ParseInt(s) ==
    IF Len(s) > 0 /\ \A i \in DOMAIN s : s[i] \in Range(AsciiDigits)
    THEN [exc |-> "none", val |-> DecimalValue(s)]
    ELSE [exc |-> "ValueError", val |-> 0]

\* str(n), the f-string formatting of an int n >= 0
RECURSIVE Str(_)
Str(n) == IF n < 10 THEN <<AsciiDigits[n + 1]>>
          ELSE Str(n \div 10) \o <<AsciiDigits[(n % 10) + 1]>>

GroupPrefix == <<"G", "r", "o", "u", "p", "_">>

NameCol == <<"N", "a", "m", "e">>
BranchCol == <<"B", "r", "a", "n", "c", "h">>

\* a missing cell (NaN)
NaN == <<"nan">>

----------------------------------------------------------------------------
(* get_next_group_column_name                                              *)

\* the filter of the list comprehensions over df.columns
IsGroupCol(col) == StartsWith(col, GroupPrefix) /\ IsDigit(SliceFrom(col, 6))

GroupCols(d) == SelectSeq(d.columns, IsGroupCol)

GetNextGroupColumnName(d) ==
    LET existing_group_cols == GroupCols(d)
        group_numbers == [i \in DOMAIN existing_group_cols |->
                              ParseInt(Split(existing_group_cols[i], "_")[2])]
    IN  IF existing_group_cols = <<>>
        THEN [exc |-> "none", val |-> GroupPrefix \o <<"1">>]
        ELSE IF \E i \in DOMAIN group_numbers : group_numbers[i].exc # "none"
        THEN [exc |-> "ValueError", val |-> <<>>]
        ELSE [exc |-> "none",
              val |-> GroupPrefix
                        \o Str(Max({group_numbers[i].val : i \in DOMAIN group_numbers}) + 1)]

----------------------------------------------------------------------------
(* get_past_pairings                                                       *)

NRows(d) == Len(d.data[NameCol])

\* df.groupby(col)['Name'].apply(list).to_dict(): per non-null label of col,
\* the names of its rows in row order
RECURSIVE NamesWithLabel(_, _, _, _)
NamesWithLabel(d, col, label, i) ==
    IF i > NRows(d) THEN <<>>
    ELSE (IF d.data[col][i] = label THEN <<d.data[NameCol][i]>> ELSE <<>>)
         \o NamesWithLabel(d, col, label, i + 1)

GroupedData(d, col) ==
    [label \in Range(d.data[col]) \ {NaN} |-> NamesWithLabel(d, col, label, 1)]

\* past_pairings[p1] = set() when p1 is no key yet
EnsureKey(pp, p1) ==
    IF p1 \in DOMAIN pp THEN pp
    ELSE [k \in DOMAIN pp \cup {p1} |-> IF k = p1 THEN {} ELSE pp[k]]

\* past_pairings[p1].add(p2)
AddPair(pp, p1, p2) == [pp EXCEPT ![p1] = @ \cup {p2}]

\* faulty variant of InnerLoop: without the test i != j
RECURSIVE InnerLoopNoSkip(_, _, _, _)
InnerLoopNoSkip(pp, members, i, j) ==
    IF j > Len(members) THEN pp
    ELSE InnerLoopNoSkip(AddPair(pp, members[i], members[j]), members, i, j + 1)

\* faulty variant of InnerLoop: only the later members are added (i < j)
RECURSIVE InnerLoopForward(_, _, _, _)
InnerLoopForward(pp, members, i, j) ==
    IF j > Len(members) THEN pp
    ELSE InnerLoopForward(IF i < j THEN AddPair(pp, members[i], members[j]) ELSE pp,
                          members, i, j + 1)

\* for j, p2 in enumerate(members): if i != j: past_pairings[p1].add(p2)
RECURSIVE InnerLoop(_, _, _, _)
InnerLoop(pp, members, i, j) ==
    IF j > Len(members) THEN pp
    ELSE InnerLoop(IF i # j THEN AddPair(pp, members[i], members[j]) ELSE pp,
                   members, i, j + 1)

\* for i, p1 in enumerate(members): ...; acc is [exc, val]
RECURSIVE MembersLoop(_, _, _, _)
MembersLoop(which, acc, members, i) ==
    IF acc.exc # "none" \/ i > Len(members) THEN acc
    ELSE LET p1 == members[i] IN
         IF which = "streamlit"
         THEN MembersLoop(which,
                          [exc |-> "none",
                           val |-> InnerLoop(EnsureKey(acc.val, p1), members, i, 1)],
                          members, i + 1)
         \* dash_app.py line 48: past_pairings[p1].add(p2) for a p1 that is no key
         ELSE IF p1 \notin DOMAIN acc.val
              THEN [exc |-> "KeyError", val |-> acc.val]
              ELSE MembersLoop(which,
                               [exc |-> "none", val |-> InnerLoop(acc.val, members, i, 1)],
                               members, i + 1)

\* for group_id, members in grouped_data.items(): if len(members) > 1: ...
RECURSIVE GroupsLoop(_, _, _, _)
GroupsLoop(which, acc, grouped_data, todo) ==
    IF acc.exc # "none" \/ todo = {} THEN acc
    ELSE LET group_id == CHOOSE g \in todo : TRUE
             members == grouped_data[group_id]
         IN  GroupsLoop(which,
                        IF Len(members) > 1 THEN MembersLoop(which, acc, members, 1) ELSE acc,
                        grouped_data, todo \ {group_id})

\* for col in group_cols: ...
RECURSIVE ColsLoop(_, _, _, _, _)
ColsLoop(which, acc, d, group_cols, c) ==
    IF acc.exc # "none" \/ c > Len(group_cols) THEN acc
    ELSE LET grouped_data == GroupedData(d, group_cols[c])
         IN  ColsLoop(which,
                      GroupsLoop(which, acc, grouped_data, DOMAIN grouped_data),
                      d, group_cols, c + 1)

GetPastPairings(which, d) ==
    ColsLoop(which, [exc |-> "none", val |-> <<>>], d, GroupCols(d), 1)

----------------------------------------------------------------------------
(* create_groups_intelligently                                             *)

\* faulty variant of Candidates: the past pairings are not consulted
CandidatesAll(person1, available, pp) == available

\* faulty variant of Candidates: the test is inverted
CandidatesPaired(person1, available, pp) ==
    LET Paired(p) == person1 \in DOMAIN pp /\ p \in pp[person1]
    IN  SelectSeq(available, Paired)

\* candidates_for_group: the available people person1 has not been paired with
Candidates(person1, available, pp) ==
    LET NotPaired(p) == person1 \notin DOMAIN pp \/ p \notin pp[person1]
    IN  SelectSeq(available, NotPaired)

\* random.shuffle(candidates) followed by k pops of its head: the first k
\* elements of a rearrangement, that is any k distinct positions in any order
ShuffledHeads(candidates, k) ==
    {[i \in 1..k |-> candidates[f[i]]] :
        f \in {g \in [1..k -> DOMAIN candidates] :
                  \A a, b \in 1..k : a # b => g[a] # g[b]}}

\* faulty variant of FallbackPicks: the picks are taken from the end of the pool
FallbackPicksLast(available, gs) ==
    SubSeq(available, Len(available) - Min2(gs - 1, Len(available)) + 1, Len(available))

\* for _ in range(group_size - 1): if available: group.append(available.pop(0))
FallbackPicks(available, gs) == SubSeq(available, 1, Min2(gs - 1, Len(available)))

\* available_participants.remove(p_to_add) for every picked candidate
RECURSIVE RemoveAll(_, _)
RemoveAll(available, picks) ==
    IF picks = <<>> THEN [exc |-> "none", val |-> available]
    ELSE LET r == RemoveFirst(available, Head(picks)) IN
         IF r.exc # "none" THEN r ELSE RemoveAll(r.val, Tail(picks))

\* faulty variant of HandleRemainders: a single leftover becomes a group of its own
HandleRemaindersOwnGroup(gr, available) ==
    IF available # <<>> /\ Len(available) <= 2 THEN Append(gr, available) ELSE gr

\* the "Handle remainders" block: the groups list that is returned
HandleRemainders(gr, available) ==
    IF available # <<>>
    THEN IF Len(available) = 1
         THEN IF gr # <<>>
              THEN [gr EXCEPT ![1] = @ \o available]
              ELSE Append(gr, available)
         ELSE IF Len(available) = 2
              THEN Append(gr, available)
              ELSE gr
    ELSE gr

\* faulty variant of Shuffle: the names list of the roster is shuffled in place
ShuffleInPlace ==
    /\ pc = "shuffle"
    /\ \E participants \in Shuffles(participants_df) :
          /\ participants_df' = participants
          /\ available_participants' = participants
    /\ groups' = <<>>
    /\ pc' = "loop"
    /\ UNCHANGED <<impl, df, grouped_df, raised, past_pairings, group_size,
                   next_group_col, rounds, file_name>>

\* participants = participants_df['Name'].tolist(); random.shuffle(participants);
\* groups = []; available_participants = list(participants_df)
Shuffle ==
    /\ pc = "shuffle"
    /\ \E participants \in Shuffles(participants_df) :
          available_participants' = participants
    /\ groups' = <<>>
    /\ pc' = "loop"
    /\ UNCHANGED <<impl, df, grouped_df, raised, past_pairings, group_size,
                   participants_df, next_group_col, rounds, file_name>>

\* one iteration of: while len(available_participants) >= group_size
LoopIteration ==
    /\ pc = "loop"
    /\ Len(available_participants) >= group_size
    /\ LET person1 == Head(available_participants)
           rest == Pop0(available_participants)
           candidates_for_group == Candidates(person1, rest, past_pairings)
       IN  IF Len(candidates_for_group) < group_size - 1
           THEN LET picks == FallbackPicks(rest, group_size) IN
                /\ groups' = Append(groups, <<person1>> \o picks)
                /\ available_participants' = SubSeq(rest, Len(picks) + 1, Len(rest))
                /\ UNCHANGED <<pc, raised>>
           ELSE \E picks \in ShuffledHeads(candidates_for_group, group_size - 1) :
                LET r == RemoveAll(rest, picks) IN
                IF r.exc # "none"
                THEN /\ raised' = r.exc
                     /\ pc' = "error"
                     /\ UNCHANGED <<groups, available_participants>>
                ELSE /\ groups' = Append(groups, <<person1>> \o picks)
                     /\ available_participants' = r.val
                     /\ UNCHANGED <<pc, raised>>
    /\ UNCHANGED <<impl, df, grouped_df, past_pairings, group_size,
                   participants_df, next_group_col, rounds, file_name>>

\* the loop has ended: handle the remainders and return groups
ReturnGroups ==
    /\ pc = "loop"
    /\ Len(available_participants) < group_size
    /\ groups' = HandleRemainders(groups, available_participants)
    /\ pc' = "returned"
    /\ UNCHANGED <<impl, df, grouped_df, raised, past_pairings, group_size,
                   participants_df, available_participants, next_group_col, rounds, file_name>>

----------------------------------------------------------------------------
(* Inputs.                                                                 *)

Names == <<"a", "b", "c", "d", "e", "f", "g", "h", "i">>

\* the first n names; with dup, the last row repeats the name of the first
NameList(n, dup) ==
    [i \in 1..n |-> IF dup /\ i = n /\ n >= 2 THEN Names[1] ELSE Names[i]]

NameLists(n) == {NameList(n, FALSE), NameList(n, TRUE)}

A == <<"A">>
B == <<"B">>
C == <<"C">>
HR == <<"H", "R">>

Col(suffix) == GroupPrefix \o suffix

MakeDf(names, extra, cells) ==
    [columns |-> <<NameCol, BranchCol>> \o extra,
     data |-> [c \in {NameCol, BranchCol} \cup Range(extra) |->
                  IF c = NameCol THEN names
                  ELSE IF c = BranchCol THEN [i \in DOMAIN names |-> HR]
                  ELSE cells[CHOOSE k \in DOMAIN extra : extra[k] = c]]]

NoDf == MakeDf(<<>>, <<>>, <<>>)

\* an avoidance mapping: the keys and sets of a set of ordered pairs
MappingOf(P) == [p \in {pq[1] : pq \in P} |-> {pq[2] : pq \in {x \in P : x[1] = p}}]

Symmetric(P) == P \cup {<<pq[2], pq[1]>> : pq \in P}

\* all sets of at most k elements of S
RECURSIVE UpTo(_, _)
UpTo(S, k) ==
    IF k = 0 THEN {{}}
    ELSE LET prev == UpTo(S, k - 1) IN prev \cup {P \cup {x} : P \in prev, x \in S}

\* the sublists of the list U (of distinct elements) with at most k elements
SubLists(U, k) ==
    {LET Chosen(x) == \E i \in S : U[i] = x IN SelectSeq(U, Chosen) :
        S \in UpTo(DOMAIN U, k)}

\* no table stored yet (None)
None == [columns |-> <<>>, data |-> <<>>]

----------------------------------------------------------------------------
(* The "Generate Coffee Groups" pipeline.                                  *)

\* f"Group {group_id_counter}"
GroupLabel(k) == <<"G", "r", "o", "u", "p", " ">> \o Str(k)

\* for person in group: participant_to_group_id[person] = f"Group {counter}"
RECURSIVE AssignGroup(_, _, _)
AssignGroup(dict, group, k) ==
    IF group = <<>> THEN dict
    ELSE AssignGroup([p \in DOMAIN dict \cup {Head(group)} |->
                         IF p = Head(group) THEN GroupLabel(k) ELSE dict[p]],
                     Tail(group), k)

\* faulty variant of AssignGroups: the counter is not incremented
RECURSIVE AssignGroupsNoIncrement(_, _, _)
AssignGroupsNoIncrement(dict, new_groups, group_id_counter) ==
    IF new_groups = <<>> THEN dict
    ELSE AssignGroupsNoIncrement(AssignGroup(dict, Head(new_groups), group_id_counter),
                                 Tail(new_groups), group_id_counter)

\* for group in new_groups: ...; group_id_counter += 1
RECURSIVE AssignGroups(_, _, _)
AssignGroups(dict, new_groups, group_id_counter) ==
    IF new_groups = <<>> THEN dict
    ELSE AssignGroups(AssignGroup(dict, Head(new_groups), group_id_counter),
                      Tail(new_groups), group_id_counter + 1)

ParticipantToGroupId(new_groups) == AssignGroups(<<>>, new_groups, 1)

\* df['Name'].map(dict): NaN for a name that is no key
MapNames(d, dict) ==
    [i \in 1..NRows(d) |->
        IF d.data[NameCol][i] \in DOMAIN dict THEN dict[d.data[NameCol][i]] ELSE NaN]

\* df[col] = cells: a new last column, or the cells of the existing column col
SetColumn(d, col, cells) ==
    [columns |-> IF col \in Range(d.columns) THEN d.columns ELSE Append(d.columns, col),
     data |-> [c \in DOMAIN d.data \cup {col} |-> IF c = col THEN cells ELSE d.data[c]]]

\* the button / the callback, up to the call of create_groups_intelligently
Generate ==
    /\ pc = "idle"
    /\ impl = "streamlit" => NRows(df) > 0
    /\ LET r == GetPastPairings(impl, df) IN
       IF r.exc # "none"
       THEN /\ raised' = r.exc
            /\ pc' = "error"
            /\ UNCHANGED <<past_pairings, participants_df, group_size>>
       ELSE /\ past_pairings' = r.val
            /\ participants_df' = df.data[NameCol]
            /\ group_size' = GROUP_SIZE
            /\ pc' = "shuffle"
            /\ UNCHANGED raised
    /\ UNCHANGED <<impl, df, grouped_df, available_participants, groups,
                   next_group_col, rounds, file_name>>

\* from the call of get_next_group_column_name to the stored grouped table
AssignColumn ==
    /\ pc = "returned"
    /\ LET r == GetNextGroupColumnName(df) IN
       IF r.exc # "none"
       THEN /\ raised' = r.exc
            /\ pc' = "error"
            /\ UNCHANGED <<next_group_col, grouped_df>>
       ELSE /\ next_group_col' = r.val
            /\ grouped_df' = SetColumn(df, r.val, MapNames(df, ParticipantToGroupId(groups)))
            /\ pc' = "done"
            /\ UNCHANGED raised
    /\ UNCHANGED <<impl, df, past_pairings, group_size, participants_df,
                   available_participants, groups, rounds, file_name>>

\* the downloaded grouped table is uploaded for the next round
Reupload ==
    /\ pc = "done"
    /\ rounds < MaxRounds
    /\ df' = grouped_df
    /\ rounds' = rounds + 1
    /\ pc' = "idle"
    /\ past_pairings' = <<>>
    /\ participants_df' = <<>>
    /\ available_participants' = <<>>
    /\ groups' = <<>>
    /\ next_group_col' = <<>>
    /\ file_name' = <<>>
    /\ UNCHANGED <<impl, grouped_df, raised, group_size>>

\* f"coffee_roulette_groups_{next_group_col}.csv"
FileName(col) ==
    <<"c", "o", "f", "f", "e", "e", "_", "r", "o", "u", "l", "e", "t", "t", "e", "_",
      "g", "r", "o", "u", "p", "s", "_">> \o col \o <<".", "c", "s", "v">>

\* the download of the grouped table: the Streamlit button is built by the run
\* that generated the groups and uses its next_group_col; the Dash callback
\* download_csv reads the stored table and calls get_next_group_column_name on it
DownloadCsv ==
    /\ pc = "done"
    /\ grouped_df # None
    /\ IF impl = "streamlit"
       THEN /\ file_name' = FileName(next_group_col)
            /\ UNCHANGED <<pc, raised>>
       ELSE LET r == GetNextGroupColumnName(grouped_df) IN
            IF r.exc # "none"
            THEN /\ raised' = r.exc
                 /\ pc' = "error"
                 /\ UNCHANGED file_name
            ELSE /\ file_name' = FileName(r.val)
                 /\ UNCHANGED <<pc, raised>>
    /\ UNCHANGED <<impl, df, grouped_df, past_pairings, group_size, participants_df,
                   available_participants, groups, next_group_col, rounds>>

\* get_past_pairings called once more on the same table, right after the
\* first call or after the partitioner has returned
Recall ==
    /\ pc \in {"shuffle", "returned"}
    /\ LET r == GetPastPairings(impl, df) IN
          /\ past_pairings' = r.val
          /\ raised' = r.exc
    /\ pc' = IF pc = "shuffle" THEN "recalled" ELSE "recalled_after"
    /\ UNCHANGED <<impl, df, grouped_df, group_size, participants_df,
                   available_participants, groups, next_group_col, rounds, file_name>>

----------------------------------------------------------------------------
(* The helpers called on their own.                                        *)

CallGetNextGroupColumnName ==
    /\ pc = "names_input"
    /\ LET r == GetNextGroupColumnName(df) IN
          /\ next_group_col' = r.val
          /\ raised' = r.exc
    /\ pc' = "names_returned"
    /\ UNCHANGED <<impl, df, grouped_df, past_pairings, group_size, participants_df,
                   available_participants, groups, rounds, file_name>>

CallGetPastPairings ==
    /\ pc = "pairings_input"
    /\ LET r == GetPastPairings(impl, df) IN
          /\ past_pairings' = r.val
          /\ raised' = r.exc
    /\ pc' = "pairings_returned"
    /\ UNCHANGED <<impl, df, grouped_df, group_size, participants_df,
                   available_participants, groups, next_group_col, rounds, file_name>>

----------------------------------------------------------------------------
(* Specifications.                                                         *)

InitLocals ==
    /\ grouped_df = None
    /\ raised = "none"
    /\ available_participants = <<>>
    /\ groups = <<>>
    /\ next_group_col = <<>>
    /\ rounds = 0
    /\ file_name = <<>>

\* column names seen by get_next_group_column_name
ColumnUniverse ==
    <<Col(<<"1">>), Col(<<"2">>), Col(<<"3">>), Col(<<"9">>), Col(<<"1", "0">>),
      Col(<<"0", "1">>), Col(<<"x">>), Col(<<>>), Col(<<"1", "x">>),
      Col(<<"1", "_", "2">>), Col(<<"sup2">>),
      <<"g", "r", "o", "u", "p", "_", "5">>,
      <<"M", "y">> \o Col(<<"7">>)>>

InitNames ==
    /\ InitLocals
    /\ impl \in {"streamlit", "dash"}
    /\ df \in {MakeDf(<<>>, extra, [k \in DOMAIN extra |-> <<>>]) :
                  extra \in SubLists(ColumnUniverse, MaxExtraCols)}
    /\ pc = "names_input"
    /\ past_pairings = <<>>
    /\ participants_df = <<>>
    /\ group_size = GROUP_SIZE

NextNames == CallGetNextGroupColumnName

SpecNames == InitNames /\ [][NextNames]_vars

\* extra columns of the tables given to get_past_pairings
PairingColumns ==
    {<<>>, <<Col(<<"1">>)>>, <<Col(<<"1">>), Col(<<"2">>)>>, <<Col(<<"x">>)>>,
     <<Col(<<"1">>), Col(<<"x">>)>>, <<Col(<<"sup2">>)>>,
     <<Col(<<"1", "0">>), Col(<<"0", "2">>)>>}

InitPairings ==
    /\ InitLocals
    /\ impl \in {"streamlit", "dash"}
    /\ \E n \in 0..MaxRows : \E names \in NameLists(n) : \E extra \in PairingColumns :
          df \in {MakeDf(names, extra, cells) :
                     cells \in [DOMAIN extra -> [1..n -> {A, B, NaN}]]}
    /\ pc = "pairings_input"
    /\ past_pairings = <<>>
    /\ participants_df = <<>>
    /\ group_size = GROUP_SIZE

NextPairings == CallGetPastPairings

SpecPairings == InitPairings /\ [][NextPairings]_vars

\* the partitioner on any roster, avoidance mapping and group size
InitPartition ==
    /\ InitLocals
    /\ impl = "streamlit"
    /\ df = None
    /\ pc = "shuffle"
    /\ group_size \in 1..MaxGroupSize
    /\ \E n \in 0..MaxNames : participants_df \in NameLists(n)
    /\ past_pairings \in
          {MappingOf(P) :
              P \in UpTo({pq \in Range(participants_df) \X Range(participants_df) : pq[1] # pq[2]},
                         MaxPairs)}

NextPartition == Shuffle \/ LoopIteration \/ ReturnGroups

SpecPartition == InitPartition /\ [][NextPartition]_vars

\* avoidance mappings for the rosters of the configured group size
ShapeAvoidances(names) ==
    {MappingOf({}),
     MappingOf(Symmetric({<<names[1], names[i]>> : i \in 2..Len(names)})),
     MappingOf(Symmetric({<<names[i], names[i + 1]>> :
                             i \in {j \in 1..(Len(names) - 1) : j % 2 = 1}}))}

InitShape ==
    /\ InitLocals
    /\ impl = "streamlit"
    /\ df = None
    /\ pc = "shuffle"
    /\ group_size = GROUP_SIZE
    /\ \E n \in 0..MaxRoster : participants_df = NameList(n, FALSE)
    /\ past_pairings \in ShapeAvoidances(participants_df)

SpecShape == InitShape /\ [][NextPartition]_vars

\* rosters of the configured group size that leave a pool after one group
InitPool ==
    /\ InitLocals
    /\ impl = "streamlit"
    /\ df = None
    /\ pc = "shuffle"
    /\ group_size = GROUP_SIZE
    /\ \E n \in 0..MaxPool : participants_df = NameList(n, FALSE)
    /\ past_pairings \in ShapeAvoidances(participants_df)

\* the partitioner on both families of inputs
InitLoop == InitPartition \/ InitPool

SpecLoop == InitLoop /\ [][NextPartition]_vars

\* extra columns of the tables given to the pipeline
PipelineColumns ==
    {<<>>, <<Col(<<"1">>)>>, <<Col(<<"1">>), Col(<<"3">>)>>, <<Col(<<"x">>)>>,
     <<Col(<<"9">>)>>, <<Col(<<"0", "1">>)>>, <<Col(<<"sup2">>)>>,
     <<Col(<<"2">>), Col(<<"x">>)>>}

\* cells of a column: one label, two alternating labels, pairs of rows, all missing
CellPatterns(n) ==
    {[i \in 1..n |-> A],
     [i \in 1..n |-> IF i % 2 = 1 THEN A ELSE B],
     [i \in 1..n |-> <<A, B, C, <<"D">>, <<"E">>>>[(i + 1) \div 2]],
     [i \in 1..n |-> NaN]}

InitTables(maxrows) ==
    /\ InitLocals
    /\ impl \in {"streamlit", "dash"}
    /\ \E n \in 0..maxrows : \E extra \in PipelineColumns :
          df \in {MakeDf(NameList(n, FALSE), extra, cells) :
                     cells \in [DOMAIN extra -> CellPatterns(n)]}
    /\ pc = "idle"
    /\ past_pairings = <<>>
    /\ participants_df = <<>>
    /\ group_size = GROUP_SIZE

Init == InitTables(MaxTableRows)

Next == Generate \/ Shuffle \/ LoopIteration \/ ReturnGroups \/ AssignColumn

Spec == Init /\ [][Next]_vars

InitRounds == InitTables(MaxChainRows)

NextRounds == Next \/ Reupload

SpecRounds == InitRounds /\ [][NextRounds]_vars

\* the pipeline followed by the download of its result
NextDownload == Next \/ DownloadCsv

SpecDownload == Init /\ [][NextDownload]_vars

\* the pipeline with a second call of get_past_pairings
NextFrame == Next \/ Recall

SpecFrame == Init /\ [][NextFrame]_vars

----------------------------------------------------------------------------
(* Properties of create_groups_intelligently.                              *)

Distinct(s) == \A i, j \in DOMAIN s : i # j => s[i] # s[j]

Positions(gr) == UNION {{<<k, i>> : i \in DOMAIN gr[k]} : k \in DOMAIN gr}

Occurrences(gr, x) == Cardinality({ki \in Positions(gr) : gr[ki[1]][ki[2]] = x})

Sizes(gr) == [k \in DOMAIN gr |-> Len(gr[k])]

\* C1: for a nonempty list of distinct names, any avoidance mapping and any
\* group_size >= 1, the returned groups contain every input name exactly once
\* and nothing else.
CoversEveryNameOnce ==
    (pc = "returned" /\ Len(participants_df) >= 1 /\ Distinct(participants_df))
        => /\ \A x \in Range(participants_df) : Occurrences(groups, x) = 1
           /\ \A ki \in Positions(groups) : groups[ki[1]][ki[2]] \in Range(participants_df)

\* the partition is complete for the group sizes whose remainders are 0, 1 or 2
CoversEveryNameOnceUpTo3 == group_size <= GROUP_SIZE => CoversEveryNameOnce

\* C2: for a nonempty name list, any avoidance mapping and any group_size >= 1
\* the partitioner raises no error, the remaining pool strictly shrinks on
\* every iteration of the main loop, and the call can always take its next
\* step until it has returned: it returns after at most len(names) iterations.
ShrinksAndReturns ==
    /\ [](raised = "none" /\ pc # "error")
    /\ [][(pc = "loop" /\ pc' = "loop")
            => Len(available_participants') < Len(available_participants)]_vars
    /\ [](pc = "returned" \/ ENABLED NextPartition)

\* the main loop ran more than once and the call has returned a group list
ReturnedAfterIterations ==
    /\ pc = "returned"
    /\ raised = "none"
    /\ Len(participants_df) >= 1
    /\ Len(groups) >= 2
    /\ Len(available_participants) < group_size

\* C3: a nonempty roster smaller than group_size (group_size >= 2) gives
\* exactly one group, which contains every participant.
SmallRosterOneGroup ==
    (/\ pc = "returned"
     /\ group_size >= 2
     /\ Len(participants_df) >= 1
     /\ Len(participants_df) < group_size)
        => /\ Len(groups) = 1
           /\ Len(groups[1]) = Len(participants_df)
           /\ Range(groups[1]) = Range(participants_df)

\* the degenerate rosters the remainder block handles: one or two names
SmallRosterOneGroupUpTo2 == Len(participants_df) <= 2 => SmallRosterOneGroup

\* q groups of GROUP_SIZE; with r = 1 the first has one more, with r = 2 a
\* last group of two follows
ExpectedSizes(n) ==
    LET q == n \div GROUP_SIZE
        r == n % GROUP_SIZE
    IN  [k \in 1..(IF r = 2 THEN q + 1 ELSE q) |->
            IF k = q + 1 THEN 2
            ELSE IF k = 1 /\ r = 1 THEN GROUP_SIZE + 1
            ELSE GROUP_SIZE]

\* C4: with group_size 3 and n = 3q + r names (q >= 1, or n = 0) the sizes of
\* the returned groups are, in emission order, q threes (r = 0), a four and
\* q - 1 threes (r = 1), q threes and a two (r = 2); no group for n = 0.
GroupSizesOfThree ==
    (/\ pc = "returned"
     /\ group_size = 3
     /\ (Len(participants_df) >= 3 \/ Len(participants_df) = 0))
        => Sizes(groups) = ExpectedSizes(Len(participants_df))

\* seven names have been grouped as a four and a three
LeftoverJoinedFirstGroup ==
    /\ pc = "returned"
    /\ group_size = 3
    /\ Len(participants_df) = 7
    /\ Sizes(groups) = <<4, 3>>

----------------------------------------------------------------------------
(* Properties of get_past_pairings.                                        *)

AllDigits == Range(AsciiDigits) \cup SuperscriptDigits

\* a round column: 'Group_' followed only by digits, at least one
RoundColumn(col) ==
    /\ Len(col) > Len(GroupPrefix)
    /\ \A i \in 1..Len(GroupPrefix) : col[i] = GroupPrefix[i]
    /\ \A i \in (Len(GroupPrefix) + 1)..Len(col) : col[i] \in AllDigits

\* rows i and j hold the same non-null label in some round column
SharedRound(d, i, j) ==
    \E c \in DOMAIN d.columns :
        /\ RoundColumn(d.columns[c])
        /\ d.data[d.columns[c]][i] # NaN
        /\ d.data[d.columns[c]][i] = d.data[d.columns[c]][j]

Met(d, p, q) ==
    \E i, j \in 1..NRows(d) :
        /\ d.data[NameCol][i] = p
        /\ d.data[NameCol][j] = q
        /\ SharedRound(d, i, j)

\* C5: on a roster with unique names the Streamlit get_past_pairings returns
\* the mapping in which q is in the set of p exactly when p # q and p and q
\* hold the same non-null label in some round column; its keys are the people
\* who shared a group with somebody else.
PairingsAreSharedRounds ==
    (/\ pc = "pairings_returned"
     /\ impl = "streamlit"
     /\ Distinct(df.data[NameCol]))
        => /\ raised = "none"
           /\ DOMAIN past_pairings =
                 {p \in Range(df.data[NameCol]) :
                     \E q \in Range(df.data[NameCol]) : p # q /\ Met(df, p, q)}
           /\ \A p \in DOMAIN past_pairings :
                 past_pairings[p] = {q \in Range(df.data[NameCol]) : p # q /\ Met(df, p, q)}

\* two people met in two rounds, a third person never shared a group
MetTwiceRecordedOnce ==
    /\ pc = "pairings_returned"
    /\ impl = "streamlit"
    /\ Distinct(df.data[NameCol])
    /\ Cardinality({c \in DOMAIN df.columns : RoundColumn(df.columns[c])}) = 2
    /\ \E i, j \in 1..NRows(df) :
          /\ i # j
          /\ \A c \in DOMAIN df.columns :
                RoundColumn(df.columns[c])
                   => /\ df.data[df.columns[c]][i] # NaN
                      /\ df.data[df.columns[c]][i] = df.data[df.columns[c]][j]
          /\ past_pairings[df.data[NameCol][i]] = {df.data[NameCol][j]}
    /\ \E p \in Range(df.data[NameCol]) : p \notin DOMAIN past_pairings

\* C6: the mapping returned by the Streamlit get_past_pairings is symmetric
\* for every roster: whenever b is in the set of a, a is in the set of b.
PairingsSymmetric ==
    (pc = "pairings_returned" /\ impl = "streamlit")
        => \A a \in DOMAIN past_pairings : \A b \in past_pairings[a] :
              b \in DOMAIN past_pairings /\ a \in past_pairings[b]

\* a mapping with recorded pairs has been returned for two round columns
PairsRecorded ==
    /\ pc = "pairings_returned"
    /\ impl = "streamlit"
    /\ Len(GroupCols(df)) = 2
    /\ \E a \in DOMAIN past_pairings : Cardinality(past_pairings[a]) >= 2

\* C10: the Dash get_past_pairings returns the mapping the Streamlit
\* get_past_pairings returns for the same table, and does not fail.
DashSameAsStreamlit ==
    pc = "pairings_returned"
        => /\ raised = "none"
           /\ past_pairings = GetPastPairings("streamlit", df).val

----------------------------------------------------------------------------
(* Properties of get_next_group_column_name.                               *)

\* the integers k with a column 'Group_' + leading zeros + the decimal digits of k
MaxRound == 20

MaxZeros == 2

Zeros(z) == [i \in 1..z |-> "0"]

RoundNumbers(cols) ==
    {k \in 0..MaxRound :
        \E c \in DOMAIN cols : \E z \in 0..MaxZeros :
            cols[c] = GroupPrefix \o Zeros(z) \o Str(k)}

ExpectedNextName(cols) ==
    IF RoundNumbers(cols) = {} THEN GroupPrefix \o Str(1)
    ELSE GroupPrefix \o Str(Max(RoundNumbers(cols)) + 1)

\* C7: get_next_group_column_name returns 'Group_' + (m + 1) for the largest
\* integer m of the columns named 'Group_' + digits, 'Group_1' when there is
\* none; other columns never influence the result.
NextNameIsMaxPlusOne ==
    pc = "names_returned"
        => /\ raised = "none"
           /\ next_group_col = ExpectedNextName(df.columns)

\* the claim holds of the tables whose round columns have decimal suffixes
NextNameIsMaxPlusOneDecimal ==
    (\A c \in DOMAIN df.columns : \A i \in DOMAIN df.columns[c] :
        df.columns[c][i] \notin SuperscriptDigits)
        => NextNameIsMaxPlusOne

----------------------------------------------------------------------------
(* Properties of the pipeline.                                             *)

\* the round integer of a round column of a table
RoundOf(col) == CHOOSE k \in 0..MaxRound : \E z \in 0..MaxZeros : col = GroupPrefix \o Zeros(z) \o Str(k)

\* new is old with one more round column, numbered one above every round of old
AddedNextRound(old, new) ==
    /\ Len(new.columns) = Len(old.columns) + 1
    /\ SubSeq(new.columns, 1, Len(old.columns)) = old.columns
    /\ \A c \in DOMAIN old.columns : new.data[old.columns[c]] = old.data[old.columns[c]]
    /\ LET added == new.columns[Len(new.columns)] IN
          /\ RoundColumn(added)
          /\ added \notin Range(old.columns)
          /\ \A c \in DOMAIN old.columns :
                RoundColumn(old.columns[c]) => RoundNumbers(<<old.columns[c]>>) # {}
          /\ RoundNumbers(<<added>>) = {Max(RoundNumbers(old.columns) \cup {0}) + 1}

\* C8: every pipeline invocation, each on the table produced by the previous
\* one, adds exactly one round column, numbered the previous maximum + 1, and
\* leaves the existing columns as they were.
EveryInvocationAddsNextRound ==
    pc \in {"done", "error"} => AddedNextRound(df, grouped_df)

\* the invocations that complete add the next round column
CompletedInvocationAddsNextRound ==
    pc = "done" => AddedNextRound(df, grouped_df)

\* the 1-based position of the group that contains the name
GroupIndexOf(gr, name) == CHOOSE k \in DOMAIN gr : name \in Range(gr[k])

\* C9: after a pipeline invocation with group size 3 on a roster with unique
\* names every row holds, in the new round column, 'Group k' for the position
\* k of the group that contains its name: no cell is null, and two rows have
\* the same label exactly when their names are in the same group.
LabelsFollowGroups ==
    pc = "done"
        => LET cells == grouped_df.data[next_group_col]
               name == df.data[NameCol]
           IN  /\ Len(cells) = NRows(df)
               /\ \A i \in 1..NRows(df) :
                     /\ cells[i] # NaN
                     /\ \E k \in DOMAIN groups : name[i] \in Range(groups[k])
                     /\ cells[i] = <<"G", "r", "o", "u", "p", " ">>
                                      \o Str(GroupIndexOf(groups, name[i]))
               /\ \A i, j \in 1..NRows(df) :
                     cells[i] = cells[j]
                        <=> GroupIndexOf(groups, name[i]) = GroupIndexOf(groups, name[j])

\* a table of five rows has been labelled with two groups
TwoGroupsLabelled ==
    /\ pc = "done"
    /\ NRows(df) = 5
    /\ Len(groups) = 2
    /\ Range(grouped_df.data[next_group_col])
          = {<<"G", "r", "o", "u", "p", " ", "1">>, <<"G", "r", "o", "u", "p", " ", "2">>}

----------------------------------------------------------------------------
(* Properties of one iteration of the main loop.                           *)

\* the avoidance set of a person: empty for a person that is no key
Avoid(p) == IF p \in DOMAIN past_pairings THEN past_pairings[p] ELSE {}

\* the step is an iteration of the main loop that emitted a group
Emitted == pc = "loop" /\ pc' = "loop" /\ Len(groups') = Len(groups) + 1

\* the remaining people, the anchor aside, that the anchor has not been paired with
Unpaired ==
    {i \in 2..Len(available_participants) :
        available_participants[i] \notin Avoid(available_participants[1])}

\* the number of times x occurs in the list s
Count(s, x) == Cardinality({i \in DOMAIN s : s[i] = x})

\* the lists s and t together hold the elements of u, each as often as u does
SameMembers(s, t, u) ==
    /\ Len(s) + Len(t) = Len(u)
    /\ IF Cardinality(Range(u)) = Len(u)
       THEN Range(s) \cup Range(t) = Range(u)
       ELSE \A x \in Range(u) : Count(s, x) + Count(t, x) = Count(u, x)

\* s is t without some of its elements, the others in their order
RECURSIVE IsSubsequence(_, _)
IsSubsequence(s, t) ==
    IF s = <<>> THEN TRUE
    ELSE IF t = <<>> THEN FALSE
    ELSE IF Head(s) = Head(t) THEN IsSubsequence(Tail(s), Tail(t))
    ELSE IsSubsequence(s, Tail(t))

\* C11: in an iteration where at least group_size - 1 of the remaining people
\* are outside the anchor's avoidance set, the emitted group is the head of
\* the pool plus group_size - 1 distinct people, none in the anchor's
\* avoidance set; exactly the group's members leave the pool and the others
\* keep their relative order.
NonFallbackGroup ==
    [][(Emitted /\ Cardinality(Unpaired) >= group_size - 1)
        => LET group == groups'[Len(groups')]
               pool == available_participants
           IN  /\ SubSeq(groups', 1, Len(groups)) = groups
               /\ Len(group) = group_size
               /\ group[1] = pool[1]
               /\ \A i \in 2..Len(group) : group[i] \notin Avoid(pool[1])
               /\ Cardinality(Range(pool)) = Len(pool)
                     => Cardinality(Range(group)) = Len(group)
               /\ Len(available_participants') = Len(pool) - group_size
               /\ IsSubsequence(available_participants', Tail(pool))
               /\ SameMembers(available_participants', group, pool)]_vars

\* a group was emitted without a member of the anchor's avoidance set while
\* such a member was in the pool, ahead of people who are still in it
AvoidedLeftInPool ==
    /\ pc = "loop"
    /\ Len(groups) = 1
    /\ Len(groups[1]) = group_size
    /\ group_size = 3
    /\ \A i \in 2..group_size : groups[1][i] \notin Avoid(groups[1][1])
    /\ Len(available_participants) >= 3
    /\ available_participants[1] \in Avoid(groups[1][1])

\* C12: in an iteration of the fallback branch (fewer than group_size - 1 of
\* the remaining people are outside the anchor's avoidance set) the emitted
\* group is the anchor followed by the first group_size - 1 people of the
\* pool in pool order, and one of them at least is in the anchor's avoidance set.
FallbackGroup ==
    [][(Emitted /\ Cardinality(Unpaired) < group_size - 1)
        => LET group == groups'[Len(groups')]
               pool == available_participants
           IN  /\ SubSeq(groups', 1, Len(groups)) = groups
               /\ group = SubSeq(pool, 1, group_size)
               /\ available_participants' = SubSeq(pool, group_size + 1, Len(pool))
               /\ \E i \in 2..group_size : group[i] \in Avoid(group[1])]_vars

\* the first group was built by the fallback branch: it holds a member of its
\* anchor's avoidance set next to a person the anchor has not been paired with
FallbackTaken ==
    /\ pc = "loop"
    /\ Len(groups) = 1
    /\ group_size = 3
    /\ Len(groups[1]) = group_size
    /\ Distinct(groups[1])
    /\ \E i \in 2..group_size : groups[1][i] \in Avoid(groups[1][1])
    /\ \E i \in 2..group_size : groups[1][i] \notin Avoid(groups[1][1])

SymmetricMapping ==
    \A a \in DOMAIN past_pairings : \A b \in past_pairings[a] :
        b \in DOMAIN past_pairings /\ a \in past_pairings[b]

\* p and q are recorded as a past pairing
Paired(p, q) == q \in Avoid(p) \/ p \in Avoid(q)

\* C13: for a symmetric avoidance mapping every group built by the
\* non-fallback branch has no recorded shared history between any two of
\* its members.
NonFallbackGroupHasNoHistory ==
    [][(Emitted /\ SymmetricMapping /\ Cardinality(Unpaired) >= group_size - 1)
        => LET group == groups'[Len(groups')]
           IN  \A i, j \in DOMAIN group : i # j => ~Paired(group[i], group[j])]_vars

\* C13 as amended: for a symmetric avoidance mapping every group built by the
\* non-fallback branch has no recorded shared history between its anchor and
\* any of the members picked for it.
NonFallbackAnchorHasNoHistory ==
    [][(Emitted /\ SymmetricMapping /\ Cardinality(Unpaired) >= group_size - 1)
        => LET group == groups'[Len(groups')]
           IN  \A i \in 2..Len(group) : ~Paired(group[1], group[i])]_vars

\* a group whose anchor has met none of its members holds two picked members
\* who have met each other
PickedMembersMet ==
    /\ SymmetricMapping
    /\ Len(groups) >= 1
    /\ Len(groups[1]) >= group_size
    /\ group_size = 3
    /\ \A i \in 2..group_size : ~Paired(groups[1][1], groups[1][i])
    /\ Paired(groups[1][2], groups[1][3])

----------------------------------------------------------------------------
(* Properties of the download.                                             *)

\* C14: a downloaded file is named after the round column that the
\* generation just added to the stored table, in both applications; that
\* column is the latest round column of the stored table.
DownloadNamedAfterGeneratedColumn ==
    file_name # <<>>
        => /\ file_name = FileName(next_group_col)
           /\ next_group_col = grouped_df.columns[Len(grouped_df.columns)]

\* the Streamlit download is named after the generated column, the Dash
\* download after the column a further round would add
DownloadNamedPerApplication ==
    file_name # <<>>
        => /\ next_group_col = grouped_df.columns[Len(grouped_df.columns)]
           /\ impl = "streamlit" => file_name = FileName(next_group_col)
           /\ impl = "dash" =>
                 /\ GetNextGroupColumnName(grouped_df).exc = "none"
                 /\ file_name = FileName(GetNextGroupColumnName(grouped_df).val)
                 /\ file_name # FileName(next_group_col)

\* a table with a round column was grouped and downloaded
DownloadedSecondRound ==
    /\ file_name # <<>>
    /\ GroupCols(df) # <<>>
    /\ Len(groups) >= 1

----------------------------------------------------------------------------
(* Frame of the three helpers.                                             *)

====
